---- MODULE Spec2Model ----
(***************************************************************************)
(* Model of nova/scheduler/driver.py: the Scheduler base class.            *)
(*                                                                         *)
(* The registry (services, hosts, instances, volumes) is the database the  *)
(* driver reads through nova.db; the driver itself keeps no state.  Each   *)
(* request r is one call of schedule_live_migration, advanced one database *)
(* call or one check at a time (pc[r] names the next statement).           *)
(***************************************************************************)
EXTENDS Integers, Sequences, FiniteSets, TLC

(***************************************************************************)
(* Bounds of the model.                                                    *)
(***************************************************************************)
\* FLAGS.service_down_time, in clock ticks of the model (the flag is
\* configurable; the model's clock runs from 0 up to it).
service_down_time == 2
\* Number of volume records of the registry.
NumVolumes == 2
\* Largest resource total a host declares in one dimension.
MaxTotal == 3

MaxTime == service_down_time
Times == 0..MaxTime

(***************************************************************************)
(* Python values the code distinguishes.                                   *)
(***************************************************************************)
\* None for an optional timestamp; a present timestamp t is <<t>>.
NoTime == <<>>
At(t) == <<t>>
\* cpu_info is tested with type(cpuinfo): keep the type next to the value.
PyStr(s) == [type |-> "str", val |-> s]
PyNone == [type |-> "NoneType", val |-> ""]

\* nova.compute.power_state names used by the driver and the registry.
RUNNING == "RUNNING"
PAUSED == "PAUSED"
SHUTOFF == "SHUTOFF"

(***************************************************************************)
(* Identifiers.                                                            *)
(***************************************************************************)
\* Names of the hosts table; "h3" is a name the hosts table does not hold.
HostNames == {"h1", "h2", "h4"}
DestNames == {"h1", "h2", "h3", "h4"}
\* Instance ids of the instances table; 9 is an id the table does not hold.
InstanceIds == 1..8
RequestIds == 1..9
VolumeIds == 1..NumVolumes
Topics == {"compute", "network"}
Reqs == {1, 2}

VARIABLES
    now,            \* datetime.datetime.utcnow()
    services,       \* services table, in registry order
    hosts,          \* hosts table, by name
    instances,      \* instances table, by id
    volumes,        \* volumes table, by id
    pc,             \* per request: the statement it is at
    instance_id,    \* per request: argument instance_id
    dest,           \* per request: argument dest
    instance_ref,   \* per request: local instance_ref
    vols,           \* per request: volumes the commit loop has still to visit
    rpc_ret,        \* per request: what rpc.call returned (the code drops it)
    result,         \* per request: the exception raised or the value returned
    pre,            \* per request: instance states and volume statuses at the call
    admitted,       \* <<instance_id, dest>> of every call that has returned
    scheduled,      \* last schedule call: topic, arguments, outcome
    liveness,       \* last service_is_up call: service, time, value returned
    up_hosts        \* last hosts_up call: topic, time, list returned

registry == <<services, hosts, instances, volumes>>
locals == <<pc, instance_id, dest, instance_ref, vols, rpc_ret, result, pre,
            admitted>>
queries == <<liveness, up_hosts, scheduled>>
vars == <<now, services, hosts, instances, volumes, pc, instance_id, dest,
          instance_ref, vols, rpc_ret, result, pre, admitted, liveness,
          up_hosts, scheduled>>


(***************************************************************************)
(* nova.db calls the driver makes, over the registry.                      *)
(***************************************************************************)
RECURSIVE FilterTopic(_, _)
FilterTopic(svcs, topic) ==
    IF svcs = <<>> THEN <<>>
    ELSE IF Head(svcs).topic = topic
         THEN <<Head(svcs)>> \o FilterTopic(Tail(svcs), topic)
         ELSE FilterTopic(Tail(svcs), topic)

\* db.service_get_all_by_topic(context, topic)
service_get_all_by_topic(topic) == FilterTopic(services, topic)

\* db.instance_get_all_by_host(context, host): the instances placed on host,
\* by ascending id.
RECURSIVE InstancesOnHost(_, _)
InstancesOnHost(host, n) ==
    IF n = 0 THEN <<>>
    ELSE InstancesOnHost(host, n - 1) \o
         (IF n \in DOMAIN instances /\ instances[n].host = host
          THEN <<instances[n]>> ELSE <<>>)

instance_get_all_by_host(host) == InstancesOnHost(host, Cardinality(InstanceIds))

\* db.volume_get_all_by_instance(context, instance_id): ids of the volumes of
\* the instance that are in the table, by ascending id.
RECURSIVE VolumesOf(_, _)
VolumesOf(id, n) ==
    IF n = 0 THEN <<>>
    ELSE VolumesOf(id, n - 1) \o
         (IF n \in DOMAIN volumes /\ volumes[n].instance_id = id
          THEN <<n>> ELSE <<>>)

volume_get_all_by_instance(id) == VolumesOf(id, NumVolumes)

(***************************************************************************)
(* Scheduler.service_is_up and Scheduler.hosts_up.                         *)
(***************************************************************************)
\* service['updated_at'] or service['created_at']
last_heartbeat(service) ==
    IF service.updated_at # NoTime THEN service.updated_at[1]
    ELSE service.created_at

\* elapsed < timedelta(seconds=FLAGS.service_down_time), as "<=".
NotYetPastTimeout(elapsed) == elapsed <= service_down_time

\* elapsed < timedelta(seconds=FLAGS.service_down_time)
WithinTimeout(elapsed) == elapsed < service_down_time

service_is_up(service, utcnow) ==
    LET elapsed == utcnow - last_heartbeat(service)
    IN  WithinTimeout(elapsed)

\* The comprehension of hosts_up without its "if self.service_is_up(service)".
RECURSIVE AllHosts(_, _)
AllHosts(svcs, utcnow) ==
    IF svcs = <<>> THEN <<>>
    ELSE <<Head(svcs).host>> \o AllHosts(Tail(svcs), utcnow)

\* [service.host for service in services if self.service_is_up(service)]
RECURSIVE UpHosts(_, _)
UpHosts(svcs, utcnow) ==
    IF svcs = <<>> THEN <<>>
    ELSE IF service_is_up(Head(svcs), utcnow)
         THEN <<Head(svcs).host>> \o UpHosts(Tail(svcs), utcnow)
         ELSE UpHosts(Tail(svcs), utcnow)

\* hosts_up answering from the list it returned last for the topic.
hosts_up_cached(topic, utcnow) ==
    IF up_hosts.topic = topic THEN up_hosts.hosts
    ELSE UpHosts(service_get_all_by_topic(topic), utcnow)

hosts_up(topic, utcnow) == UpHosts(service_get_all_by_topic(topic), utcnow)

(***************************************************************************)
(* Scheduler.schedule.                                                     *)
(***************************************************************************)
\* A fallback that places on the first host that is up for the topic.
schedule_first_up(topic, args, utcnow) ==
    IF hosts_up(topic, utcnow) = <<>>
    THEN [exc |-> "NoValidHost", msg |-> "No hosts found", at |-> "schedule"]
    ELSE [exc |-> "return", msg |-> Head(hosts_up(topic, utcnow)), at |-> "return"]

\* raise NotImplementedError(_("Must implement a fallback schedule"))
schedule(topic, args, utcnow) ==
    [exc |-> "NotImplementedError", msg |-> "Must implement a fallback schedule",
     at |-> "schedule"]

(***************************************************************************)
(* Scheduler.has_enough_resource.                                          *)
(***************************************************************************)
\* The loop "for i_ref in instances_ref: total_x -= int(i_ref[x])".
RECURSIVE Remaining(_, _)
Remaining(total, irefs) ==
    IF irefs = <<>> THEN total
    ELSE Remaining([vcpus     |-> total.vcpus - Head(irefs).vcpus,
                    memory_mb |-> total.memory_mb - Head(irefs).memory_mb,
                    local_gb  |-> total.local_gb - Head(irefs).local_gb],
                   Tail(irefs))

\* The test of has_enough_resource with "<" for "<=".
LacksResourceLoose(total, iref) ==
    \/ total.vcpus < iref.vcpus
    \/ total.memory_mb < iref.memory_mb
    \/ total.local_gb < iref.local_gb

\* total_cpu <= vcpus or total_mem <= mem or total_hdd <= hdd
LacksResource(total, iref) ==
    \/ total.vcpus <= iref.vcpus
    \/ total.memory_mb <= iref.memory_mb
    \/ total.local_gb <= iref.local_gb

\* has_enough_resource with a reservation: the instances of the caller's
\* host that calls have set to (PAUSED, 'migrating') count against the
\* destination as well.
has_enough_resource_reserving(id, d) ==
    LET iref == instances[id]
        host_ref == hosts[d]
        total == Remaining([vcpus     |-> host_ref.vcpus,
                            memory_mb |-> host_ref.memory_mb,
                            local_gb  |-> host_ref.local_gb],
                           instance_get_all_by_host(d))
        reserved == Remaining(total, SelectSeq(
                        InstancesOnHost(iref.host, Cardinality(InstanceIds)),
                        LAMBDA i : /\ i.state = PAUSED
                                   /\ i.state_description = "migrating"))
    IN  ~LacksResource(reserved, iref)

\* TRUE when has_enough_resource returns, FALSE when it raises NotEmpty.
has_enough_resource(id, d) ==
    LET iref == instances[id]
        host_ref == hosts[d]
        total == Remaining([vcpus     |-> host_ref.vcpus,
                            memory_mb |-> host_ref.memory_mb,
                            local_gb  |-> host_ref.local_gb],
                           instance_get_all_by_host(d))
    IN  ~LacksResource(total, iref)

(***************************************************************************)
(* Scheduler.schedule_live_migration, one statement at a time.             *)
(***************************************************************************)
NoRef == [host |-> "", launched_on |-> "", state |-> "", state_description |-> "",
          vcpus |-> 0, memory_mb |-> 0, local_gb |-> 0]
NoResult == [exc |-> "", msg |-> "", at |-> ""]
Raise(exc, msg, at) == [exc |-> exc, msg |-> msg, at |-> at]
Return(value) == [exc |-> "return", msg |-> value, at |-> "return"]

\* What a call can change: every instance's state pair, every volume's status.
Mutable ==
    [state  |-> [i \in DOMAIN instances |->
                    <<instances[i].state, instances[i].state_description>>],
     status |-> [v \in DOMAIN volumes |-> volumes[v].status]]

Fail(r, exc, msg) ==
    /\ pc' = [pc EXCEPT ![r] = "failed"]
    /\ result' = [result EXCEPT ![r] = Raise(exc, msg, pc[r])]

Goto(r, label) ==
    /\ pc' = [pc EXCEPT ![r] = label]
    /\ UNCHANGED result

\* A client calls schedule_live_migration(context, instance_id, dest) with
\* an instance_id of ids and a dest of dests.
BeginWith(r, ids, dests) ==
    /\ pc[r] \in {"idle", "done", "failed"}
    /\ \E id \in ids, d \in dests :
          /\ instance_id' = [instance_id EXCEPT ![r] = id]
          /\ dest' = [dest EXCEPT ![r] = d]
    /\ pc' = [pc EXCEPT ![r] = "get_instance"]
    /\ instance_ref' = [instance_ref EXCEPT ![r] = NoRef]
    /\ vols' = [vols EXCEPT ![r] = <<>>]
    /\ rpc_ret' = [rpc_ret EXCEPT ![r] = ""]
    /\ result' = [result EXCEPT ![r] = NoResult]
    /\ pre' = [pre EXCEPT ![r] = Mutable]
    /\ UNCHANGED <<now, registry, queries, admitted>>

\* A client calls schedule_live_migration with any instance_id and any dest.
Begin(r) == BeginWith(r, RequestIds, DestNames)

\* instance_ref = db.instance_get(context, instance_id)
GetInstance(r) ==
    /\ pc[r] = "get_instance"
    /\ IF instance_id[r] \notin DOMAIN instances
       THEN /\ Fail(r, "NotFound", "instance")
            /\ UNCHANGED instance_ref
       ELSE /\ instance_ref' = [instance_ref EXCEPT ![r] = instances[instance_id[r]]]
            /\ Goto(r, "check_state")
    /\ UNCHANGED <<now, registry, queries, instance_id, dest, vols, rpc_ret,
                   pre, admitted>>

\* power_state.RUNNING != instance_ref['state'] or
\* 'running' != instance_ref['state_description'], with "and" for "or".
NotRunningBoth(iref) ==
    RUNNING # iref.state /\ "running" # iref.state_description

\* power_state.RUNNING != instance_ref['state'] or
\* 'running' != instance_ref['state_description']
NotRunning(iref) ==
    RUNNING # iref.state \/ "running" # iref.state_description

\* The function without its state check.
CheckStateSkipped(r) ==
    /\ pc[r] = "check_state"
    /\ Goto(r, "get_dest")
    /\ UNCHANGED <<now, registry, queries, instance_id, dest, instance_ref, vols,
                   rpc_ret, pre, admitted>>

\* if power_state.RUNNING != ... or 'running' != ...: raise exception.Invalid
CheckState(r) ==
    /\ pc[r] = "check_state"
    /\ IF NotRunning(instance_ref[r])
       THEN Fail(r, "Invalid", "Instance(%s) is not running")
       ELSE Goto(r, "get_dest")
    /\ UNCHANGED <<now, registry, queries, instance_id, dest, instance_ref, vols,
                   rpc_ret, pre, admitted>>

\* The destination looked up without raising when it is absent.
GetDestUnchecked(r) ==
    /\ pc[r] = "get_dest"
    /\ Goto(r, "check_same")
    /\ UNCHANGED <<now, registry, queries, instance_id, dest, instance_ref, vols,
                   rpc_ret, pre, admitted>>

\* dhost_ref = db.host_get_by_name(context, dest)
GetDest(r) ==
    /\ pc[r] = "get_dest"
    /\ IF dest[r] \notin DOMAIN hosts
       THEN Fail(r, "NotFound", "host")
       ELSE Goto(r, "check_same")
    /\ UNCHANGED <<now, registry, queries, instance_id, dest, instance_ref, vols,
                   rpc_ret, pre, admitted>>

\* src = instance_ref['host']; if dest == src: raise
CheckSame(r) ==
    /\ pc[r] = "check_same"
    /\ LET src == instance_ref[r].host
       IN  IF dest[r] = src
           THEN Fail(r, "Invalid", "%s is where %s is running now. choose other host.")
           ELSE Goto(r, "check_compute")
    /\ UNCHANGED <<now, registry, queries, instance_id, dest, instance_ref, vols,
                   rpc_ret, pre, admitted>>

\* [service.host for service in services]
ServiceHosts(svcs) == {svcs[k].host : k \in DOMAIN svcs}

\* services = db.service_get_all_by_topic(context, 'compute')
\* if dest not in [service.host for service in services]: raise
CheckCompute(r) ==
    /\ pc[r] = "check_compute"
    /\ LET svcs == service_get_all_by_topic("compute")
       IN  IF dest[r] \notin ServiceHosts(svcs)
           THEN Fail(r, "Invalid", "%s must be compute node")
           ELSE Goto(r, "check_alive")
    /\ UNCHANGED <<now, registry, queries, instance_id, dest, instance_ref, vols,
                   rpc_ret, pre, admitted>>

\* service = [service for service in services if service.host == dest][0]
DestService(d) ==
    LET svcs == service_get_all_by_topic("compute")
        k == CHOOSE k \in DOMAIN svcs :
                /\ svcs[k].host = d
                /\ \A j \in 1..(k - 1) : svcs[j].host # d
    IN  svcs[k]

\* if not self.service_is_up(service): raise
CheckAlive(r) ==
    /\ pc[r] = "check_alive"
    /\ IF ~service_is_up(DestService(dest[r]), now)
       THEN Fail(r, "Invalid", "%s is not alive(time synchronize problem?)")
       ELSE Goto(r, "check_type")
    /\ UNCHANGED <<now, registry, queries, instance_id, dest, instance_ref, vols,
                   rpc_ret, pre, admitted>>

\* ohost_ref = db.host_get_by_name(context, orighost); if otype != dtype: raise
CheckType(r) ==
    /\ pc[r] = "check_type"
    /\ LET orighost == instance_ref[r].launched_on
       IN  IF orighost \notin DOMAIN hosts
           THEN Fail(r, "NotFound", "host")
           ELSE IF hosts[orighost].hypervisor_type # hosts[dest[r]].hypervisor_type
                THEN Fail(r, "Invalid", "Different hypervisor type(%s->%s)")
                ELSE Goto(r, "check_version")
    /\ UNCHANGED <<now, registry, queries, instance_id, dest, instance_ref, vols,
                   rpc_ret, pre, admitted>>

\* oversion > dversion, as ">=".
OlderOrSame(oversion, dversion) == oversion >= dversion

\* oversion > dversion
Older(oversion, dversion) == oversion > dversion

\* if oversion > dversion: raise
CheckVersion(r) ==
    /\ pc[r] = "check_version"
    /\ LET oversion == hosts[instance_ref[r].launched_on].hypervisor_version
           dversion == hosts[dest[r]].hypervisor_version
       IN  IF Older(oversion, dversion)
           THEN Fail(r, "Invalid", "Older hypervisor version(%s->%s)")
           ELSE Goto(r, "check_cpuinfo")
    /\ UNCHANGED <<now, registry, queries, instance_id, dest, instance_ref, vols,
                   rpc_ret, pre, admitted>>

\* cpuinfo = ohost_ref['cpu_info']; if str != type(cpuinfo): raise
CheckCpuinfo(r) ==
    /\ pc[r] = "check_cpuinfo"
    /\ LET cpuinfo == hosts[instance_ref[r].launched_on].cpu_info
       IN  IF "str" # cpuinfo.type
           THEN Fail(r, "Invalid", "Unexpected err: not found cpu_info for %s on DB.hosts")
           ELSE Goto(r, "compare_cpu")
    /\ UNCHANGED <<now, registry, queries, instance_id, dest, instance_ref, vols,
                   rpc_ret, pre, admitted>>

(***************************************************************************)
(* The remote compare_cpu call.                                            *)
(***************************************************************************)
\* What rpc.call can do: return the remote method's answer, raise
\* rpc.RemoteError (the remote method raised), or raise an error of the
\* transport itself.
RpcAnswers == {"compatible", "incompatible"}
RpcErrors == {"RemoteError", "TransportError"}

\* except rpc.RemoteError, e: the handler formats its log message with ret,
\* a name bound nowhere in the function or the module, so evaluating the
\* tuple raises NameError and "raise e" is never reached.
RemoteErrorHandler == "NameError"

\* try: rpc.call(...) except rpc.RemoteError, e: ...
CompareCpu(r) ==
    /\ pc[r] = "compare_cpu"
    /\ \/ \E answer \in RpcAnswers :
             /\ rpc_ret' = [rpc_ret EXCEPT ![r] = answer]
             /\ Goto(r, "has_enough_resource")
       \/ /\ rpc_ret' = [rpc_ret EXCEPT ![r] = "RemoteError"]
          /\ Fail(r, RemoteErrorHandler, "compare_cpu")
       \/ /\ rpc_ret' = [rpc_ret EXCEPT ![r] = "TransportError"]
          /\ Fail(r, "TransportError", "compare_cpu")
    /\ UNCHANGED <<now, registry, queries, instance_id, dest, instance_ref,
                   vols, pre, admitted>>

\* db.instance_set_state(context, instance_id, state, description)
instance_set_state(id, state, description) ==
    [instances EXCEPT ![id].state = state,
                      ![id].state_description = description]

\* The capacity check placed after the instance_set_state call.
HasEnoughResourceAfterSetState(r) ==
    /\ pc[r] = "has_enough_resource"
    /\ instances' = instance_set_state(instance_id[r], PAUSED, "migrating")
    /\ IF has_enough_resource(instance_id[r], dest[r])
       THEN Goto(r, "get_volumes")
       ELSE Fail(r, "NotEmpty", "%s doesnt have enough resource for %s")
    /\ UNCHANGED <<now, services, hosts, volumes, queries, instance_id, dest,
                   instance_ref, vols, rpc_ret, pre, admitted>>

\* The capacity check with its outcome ignored.
HasEnoughResourceIgnored(r) ==
    /\ pc[r] = "has_enough_resource"
    /\ Goto(r, "set_state")
    /\ UNCHANGED <<now, registry, queries, instance_id, dest, instance_ref, vols,
                   rpc_ret, pre, admitted>>

\* self.has_enough_resource(context, instance_id, dest)
HasEnoughResource(r) ==
    /\ pc[r] = "has_enough_resource"
    /\ IF has_enough_resource(instance_id[r], dest[r])
       THEN Goto(r, "set_state")
       ELSE Fail(r, "NotEmpty", "%s doesnt have enough resource for %s")
    /\ UNCHANGED <<now, registry, queries, instance_id, dest, instance_ref, vols,
                   rpc_ret, pre, admitted>>

(***************************************************************************)
(* The commit: instance state, then volume statuses.                       *)
(***************************************************************************)
\* The commit going to the volume loop without the state write.
SetStateOmitted(r) ==
    /\ pc[r] = "set_state"
    /\ Goto(r, "get_volumes")
    /\ UNCHANGED <<now, registry, queries, instance_id, dest, instance_ref, vols,
                   rpc_ret, pre, admitted>>

\* The state write recording the new placement as well.
SetStateAndPlace(r) ==
    /\ pc[r] = "set_state"
    /\ instances' = [instance_set_state(instance_id[r], PAUSED, "migrating")
                        EXCEPT ![instance_id[r]].host = dest[r]]
    /\ Goto(r, "get_volumes")
    /\ UNCHANGED <<now, services, hosts, volumes, queries, instance_id, dest,
                   instance_ref, vols, rpc_ret, pre, admitted>>

\* db.instance_set_state(context, instance_id, power_state.PAUSED, 'migrating')
SetState(r) ==
    /\ pc[r] = "set_state"
    /\ instances' = instance_set_state(instance_id[r], PAUSED, "migrating")
    /\ Goto(r, "get_volumes")
    /\ UNCHANGED <<now, services, hosts, volumes, queries, instance_id, dest,
                   instance_ref, vols, rpc_ret, pre, admitted>>

\* for vol in db.volume_get_all_by_instance(context, instance_id):
GetVolumes(r) ==
    /\ pc[r] = "get_volumes"
    /\ vols' = [vols EXCEPT ![r] = volume_get_all_by_instance(instance_id[r])]
    /\ Goto(r, "update_volume")
    /\ UNCHANGED <<now, registry, queries, instance_id, dest, instance_ref,
                   rpc_ret, pre, admitted>>

\* Where the call would go with no except clause for NotFound: out of the
\* function, with the error.
AfterNotFoundRaise == "failed"

\* Where the call goes when volume_update raises NotFound: the try encloses
\* the whole for loop, so "except exception.NotFound: pass" leaves the loop.
AfterNotFound == "return"

\* What db.volume_update can raise besides exception.NotFound: an error of
\* the database layer.
VolumeUpdateErrors == {"DBError"}

\* The instances table after an error of volume_update left the function,
\* had the function put the instance back to (RUNNING, 'running').
OnVolumeErrorRollback(id) == instance_set_state(id, RUNNING, "running")

\* The instances table after an error of volume_update left the function:
\* no handler or finally clause touches what line 149 wrote.
OnVolumeError(id) == instances

\* db.volume_update(context, vol['id'], {'status': 'migrating'})
UpdateVolume(r) ==
    /\ pc[r] = "update_volume"
    /\ IF vols[r] = <<>>
       THEN /\ Goto(r, "return")
            /\ UNCHANGED <<volumes, vols>>
       ELSE LET id == Head(vols[r])
            IN  IF id \notin DOMAIN volumes
                THEN /\ Goto(r, AfterNotFound)
                     /\ vols' = [vols EXCEPT ![r] = Tail(vols[r])]
                     /\ UNCHANGED volumes
                ELSE /\ volumes' = [volumes EXCEPT ![id].status = "migrating"]
                     /\ vols' = [vols EXCEPT ![r] = Tail(vols[r])]
                     /\ Goto(r, "update_volume")
    /\ UNCHANGED <<now, services, hosts, instances, queries, instance_id, dest,
                   instance_ref, rpc_ret, pre, admitted>>

\* db.volume_update raises an error the except clause does not name: the
\* error leaves the loop and the function.
VolumeUpdateFails(r) ==
    /\ pc[r] = "update_volume"
    /\ vols[r] # <<>>
    /\ \E e \in VolumeUpdateErrors : Fail(r, e, "volume_update")
    /\ instances' = OnVolumeError(instance_id[r])
    /\ UNCHANGED <<now, services, hosts, volumes, queries, instance_id, dest,
                   instance_ref, vols, rpc_ret, pre, admitted>>

\* The return statement handing back dest instead of src.
ReturnDest(r) ==
    /\ pc[r] = "return"
    /\ pc' = [pc EXCEPT ![r] = "done"]
    /\ result' = [result EXCEPT ![r] = Return(dest[r])]
    /\ admitted' = admitted \cup {<<instance_id[r], dest[r]>>}
    /\ UNCHANGED <<now, registry, queries, instance_id, dest, instance_ref, vols,
                   rpc_ret, pre>>

\* return src
ReturnSrc(r) ==
    /\ pc[r] = "return"
    /\ pc' = [pc EXCEPT ![r] = "done"]
    /\ result' = [result EXCEPT ![r] = Return(instance_ref[r].host)]
    /\ admitted' = admitted \cup {<<instance_id[r], dest[r]>>}
    /\ UNCHANGED <<now, registry, queries, instance_id, dest, instance_ref, vols,
                   rpc_ret, pre>>

schedule_live_migration(r) ==
    \/ GetInstance(r) \/ CheckState(r) \/ GetDest(r) \/ CheckSame(r)
    \/ CheckCompute(r) \/ CheckAlive(r) \/ CheckType(r) \/ CheckVersion(r)
    \/ CheckCpuinfo(r) \/ CompareCpu(r) \/ HasEnoughResource(r)
    \/ SetState(r) \/ GetVolumes(r) \/ UpdateVolume(r) \/ ReturnSrc(r)

(***************************************************************************)
(* The world around the driver.                                            *)
(***************************************************************************)
\* Time passes between two reads of datetime.datetime.utcnow().
Tick ==
    /\ now < MaxTime
    /\ now' = now + 1
    /\ UNCHANGED <<registry, locals, queries>>

\* Another component deletes the row of a volume that a commit has listed
\* and not yet updated: the volume_update of it raises exception.NotFound.
\* (A row deleted before the listing only makes the list shorter.)
DeleteVolume(v) ==
    /\ v \in DOMAIN volumes
    /\ \E r \in Reqs :
          /\ pc[r] = "update_volume"
          /\ \E k \in DOMAIN vols[r] : vols[r][k] = v
    /\ volumes' = [w \in DOMAIN volumes \ {v} |-> volumes[w]]
    /\ UNCHANGED <<now, services, hosts, instances, locals, queries>>

(***************************************************************************)
(* Initial registries.                                                     *)
(***************************************************************************)
Service(host, topic, created_at, updated_at) ==
    [host |-> host, topic |-> topic, created_at |-> created_at,
     updated_at |-> updated_at]

Host(vcpus, memory_mb, local_gb, type, version, cpu_info) ==
    [vcpus |-> vcpus, memory_mb |-> memory_mb, local_gb |-> local_gb,
     hypervisor_type |-> type, hypervisor_version |-> version,
     cpu_info |-> cpu_info]

Instance(host, launched_on, state, description, demand) ==
    [host |-> host, launched_on |-> launched_on, state |-> state,
     state_description |-> description, vcpus |-> demand, memory_mb |-> demand,
     local_gb |-> demand]

\* Running instances: 1 and 2 on different hosts, 3 launched on a host without
\* cpu_info, 4 launched on a host that has left the hosts table, 5 asking for
\* more of every resource.  Instances 6 to 8 are not (RUNNING, 'running').
InstanceTable ==
    [i \in InstanceIds |->
        CASE i = 1 -> Instance("h1", "h1", RUNNING, "running", 1)
          [] i = 2 -> Instance("h2", "h1", RUNNING, "running", 1)
          [] i = 3 -> Instance("h1", "h4", RUNNING, "running", 1)
          [] i = 4 -> Instance("h1", "h3", RUNNING, "running", 1)
          [] i = 5 -> Instance("h1", "h1", RUNNING, "running", 2)
          [] i = 6 -> Instance("h1", "h1", RUNNING, "rebooting", 1)
          [] i = 7 -> Instance("h1", "h1", SHUTOFF, "running", 1)
          [] OTHER -> Instance("h1", "h1", SHUTOFF, "shutoff", 1)]

\* The first two volumes are attached to instance 1, the others to 2.
VolumeOwner(v) == IF v <= 2 THEN 1 ELSE 2

\* h1 declares room for the instances placed on it and two units more.
H1Total == Cardinality(InstanceIds) + 2

InitLocals ==
    /\ pc = [r \in Reqs |-> "idle"]
    /\ instance_id = [r \in Reqs |-> 0]
    /\ dest = [r \in Reqs |-> ""]
    /\ instance_ref = [r \in Reqs |-> NoRef]
    /\ vols = [r \in Reqs |-> <<>>]
    /\ rpc_ret = [r \in Reqs |-> ""]
    /\ result = [r \in Reqs |-> NoResult]
    /\ pre = [r \in Reqs |-> Mutable]
    /\ admitted = {}

InitQueries ==
    /\ liveness = [service |-> Service("", "", 0, NoTime), at |-> 0, up |-> FALSE]
    /\ up_hosts = [topic |-> "", at |-> 0, hosts |-> <<>>]
    /\ scheduled = [topic |-> "", args |-> <<>>, result |-> NoResult]

\* Totals h2 can declare: MaxTotal or one less, in each dimension.
Totals ==
    [vcpus : (MaxTotal - 1)..MaxTotal, memory_mb : (MaxTotal - 1)..MaxTotal,
     local_gb : (MaxTotal - 1)..MaxTotal]

\* h1 is the source and origin host; h2 is the destination whose hypervisor
\* and totals are drawn; h4 has no compute service and no cpu_info.
Init ==
    /\ now = 0
    /\ services = <<Service("h1", "compute", 0, At(1)),
                    Service("h2", "network", 0, At(1)),
                    Service("h4", "network", 0, At(1)),
                    Service("h2", "compute", 0, NoTime)>>
    /\ \E type \in {"kvm", "xen"}, version \in 1..3, total \in Totals :
          hosts = [h \in HostNames |->
                     CASE h = "h1" -> Host(H1Total, H1Total, H1Total, "kvm", 2,
                                           PyStr("<cpu/>"))
                       [] h = "h2" -> Host(total.vcpus, total.memory_mb,
                                           total.local_gb, type, version,
                                           PyStr("<cpu/>"))
                       [] OTHER -> Host(MaxTotal, MaxTotal, MaxTotal, "kvm", 1,
                                        PyNone)]
    /\ instances = InstanceTable
    /\ volumes = [v \in VolumeIds |->
                    [instance_id |-> VolumeOwner(v), status |-> "in-use"]]
    /\ InitLocals
    /\ InitQueries

\* One client, one call at a time.
Next ==
    \/ Begin(1)
    \/ schedule_live_migration(1)
    \/ Tick
    \/ \E v \in VolumeIds : DeleteVolume(v)

Spec == Init /\ [][Next]_vars

(***************************************************************************)
(* Liveness queries: service_is_up and hosts_up called by a scheduler.      *)
(***************************************************************************)
\* A caller evaluates Scheduler.service_is_up(service) on a services row.
CallServiceIsUp(k) ==
    /\ liveness' = [service |-> services[k], at |-> now,
                    up |-> service_is_up(services[k], now)]
    /\ UNCHANGED <<now, registry, locals, up_hosts, scheduled>>

\* A caller evaluates self.hosts_up(context, topic).
CallHostsUp(topic) ==
    /\ up_hosts' = [topic |-> topic, at |-> now, hosts |-> hosts_up(topic, now)]
    /\ UNCHANGED <<now, registry, locals, liveness, scheduled>>

\* Arguments a caller passes to schedule after the topic (*_args).
ScheduleArgs == {<<>>, <<1>>}

\* A caller evaluates self.schedule(context, topic, *_args, **_kwargs).
CallSchedule(topic, args) ==
    /\ scheduled' = [topic |-> topic, args |-> args,
                     result |-> schedule(topic, args, now)]
    /\ UNCHANGED <<now, registry, locals, liveness, up_hosts>>

\* Rows of the services table; the timestamps are drawn per row.
ServiceRows == <<[host |-> "h1", topic |-> "compute"],
                 [host |-> "h2", topic |-> "network"],
                 [host |-> "h2", topic |-> "compute"]>>

Stamps == {[created_at |-> c, updated_at |-> u] :
              c \in 0..1, u \in {NoTime} \cup {At(t) : t \in 0..2}}

InitLive ==
    /\ now = 0
    /\ \E stamp \in [DOMAIN ServiceRows -> Stamps] :
          services = [k \in DOMAIN ServiceRows |->
                        Service(ServiceRows[k].host, ServiceRows[k].topic,
                                stamp[k].created_at, stamp[k].updated_at)]
    /\ hosts = [h \in HostNames |->
                  Host(MaxTotal, MaxTotal, MaxTotal, "kvm", 2, PyStr("<cpu/>"))]
    /\ instances = InstanceTable
    /\ volumes = [v \in VolumeIds |->
                    [instance_id |-> VolumeOwner(v), status |-> "in-use"]]
    /\ InitLocals
    /\ InitQueries

NextLive ==
    \/ Tick
    \/ \E k \in DOMAIN services : CallServiceIsUp(k)
    \/ \E topic \in Topics : CallHostsUp(topic)

SpecLive == InitLive /\ [][NextLive]_vars

(***************************************************************************)
(* The driver alone: one client's calls of schedule_live_migration and of  *)
(* hosts_up over a registry no other component writes.                     *)
(***************************************************************************)
NextAlone ==
    \/ Begin(1)
    \/ schedule_live_migration(1)
    \/ \E topic \in Topics : CallHostsUp(topic)

SpecAlone == Init /\ [][NextAlone]_vars

(***************************************************************************)
(* Heartbeats: services report, or stop reporting, while the clock runs    *)
(* and a client calls hosts_up, schedule and schedule_live_migration.      *)
(***************************************************************************)
\* The service of row k reports to the registry: its updated_at becomes now.
Heartbeat(k) ==
    /\ last_heartbeat(services[k]) < now
    /\ services' = [services EXCEPT ![k].updated_at = At(now)]
    /\ UNCHANGED <<now, hosts, instances, volumes, locals, queries>>

InitStale ==
    /\ now = 0
    /\ services = <<Service("h1", "compute", 0, NoTime),
                    Service("h2", "network", 0, NoTime),
                    Service("h2", "compute", 0, At(0))>>
    /\ hosts = [h \in HostNames |->
                  Host(H1Total, H1Total, H1Total, "kvm", 2, PyStr("<cpu/>"))]
    /\ instances = InstanceTable
    /\ volumes = [v \in VolumeIds |->
                    [instance_id |-> VolumeOwner(v), status |-> "in-use"]]
    /\ InitLocals
    /\ InitQueries

NextStale ==
    \/ Tick
    \/ \E k \in DOMAIN services : Heartbeat(k)
    \/ \E topic \in Topics : CallHostsUp(topic)
    \/ \E topic \in Topics, args \in ScheduleArgs : CallSchedule(topic, args)
    \/ BeginWith(1, {1}, {"h2"})
    \/ schedule_live_migration(1)

SpecStale == InitStale /\ [][NextStale]_vars

(***************************************************************************)
(* Concurrent clients: two calls of schedule_live_migration interleave     *)
(* statement by statement over one registry.                               *)
(***************************************************************************)
\* Instances the clients ask to migrate (both run on h1 and were launched
\* there) and the destinations they name.
PairIds == {1, 5}
PairDests == {"h2", "h4"}

\* What h2 declares in each dimension: what instance 2, placed on it, claims
\* plus the demands of instances 1 and 5, so that either fits strictly and
\* the two together do not.
PairTotal ==
    InstanceTable[1].vcpus + InstanceTable[2].vcpus + InstanceTable[5].vcpus

\* Three live compute hosts of one hypervisor; h1 is the source of both
\* instances, h2 can take either of them, h4 has room for instance 1 only.
InitPair ==
    /\ now = 0
    /\ services = <<Service("h1", "compute", 0, NoTime),
                    Service("h2", "compute", 0, NoTime),
                    Service("h4", "compute", 0, NoTime)>>
    /\ hosts = [h \in HostNames |->
                  CASE h = "h1" -> Host(H1Total, H1Total, H1Total, "kvm", 2,
                                        PyStr("<cpu/>"))
                    [] h = "h2" -> Host(PairTotal, PairTotal, PairTotal, "kvm", 2,
                                        PyStr("<cpu/>"))
                    [] OTHER -> Host(MaxTotal - 1, MaxTotal - 1, MaxTotal - 1,
                                     "kvm", 2, PyStr("<cpu/>"))]
    /\ instances = InstanceTable
    /\ volumes = [v \in VolumeIds |->
                    [instance_id |-> VolumeOwner(v), status |-> "in-use"]]
    /\ InitLocals
    /\ InitQueries

NextConc ==
    \E r \in Reqs :
        \/ BeginWith(r, PairIds, PairDests)
        \/ schedule_live_migration(r)
        \/ VolumeUpdateFails(r)

SpecConc == InitPair /\ [][NextConc]_vars

(***************************************************************************)
(* One client whose calls follow one another, over a registry nothing      *)
(* else writes.                                                            *)
(***************************************************************************)
NextSeq ==
    \/ BeginWith(1, PairIds, PairDests)
    \/ schedule_live_migration(1)

SpecSeq == InitPair /\ [][NextSeq]_vars

(***************************************************************************)
(* The commit under faults of the registry, and run a second time.         *)
(***************************************************************************)
\* Lines 148-161 are entered again for the instance of a call that has
\* returned: instance_set_state, then the volume loop, then the return.  (The
\* function offers them only behind its checks.)
Recommit(r) ==
    /\ pc[r] = "done"
    /\ pc' = [pc EXCEPT ![r] = "set_state"]
    /\ vols' = [vols EXCEPT ![r] = <<>>]
    /\ result' = [result EXCEPT ![r] = NoResult]
    /\ pre' = [pre EXCEPT ![r] = Mutable]
    /\ UNCHANGED <<now, registry, queries, instance_id, dest, instance_ref,
                   rpc_ret, admitted>>

NextCommit ==
    \/ BeginWith(1, PairIds, PairDests)
    \/ schedule_live_migration(1)
    \/ VolumeUpdateFails(1)
    \/ Recommit(1)
    \/ \E v \in VolumeIds : DeleteVolume(v)

SpecCommit == InitPair /\ [][NextCommit]_vars

(***************************************************************************)
(* Properties.                                                             *)
(***************************************************************************)
PreconditionSteps == {"get_instance", "check_state", "get_dest", "check_same",
                      "check_compute", "check_alive", "check_type",
                      "check_version", "check_cpuinfo"}
ValidationSteps == PreconditionSteps \cup {"compare_cpu", "has_enough_resource"}
PastPreconditions == {"compare_cpu", "has_enough_resource", "set_state",
                      "get_volumes", "update_volume", "return", "done"}
PastCapacity == {"set_state", "get_volumes", "update_volume", "return", "done"}
Committed == {"get_volumes", "update_volume", "return", "done"}
Dimensions == {"vcpus", "memory_mb", "local_gb"}

StatePair(i) == <<instances[i].state, instances[i].state_description>>

\* Since request r began, no instance's state pair has changed and no volume
\* of the table has changed its status.
Untouched(r) ==
    /\ Mutable.state = pre[r].state
    /\ \A v \in DOMAIN volumes : volumes[v].status = pre[r].status[v]

\* C1: a call that failed in one of the precondition checks, in the remote
\* compare_cpu call or in the capacity check has issued no mutation: every
\* instance's state and state_description and every volume's status are what
\* they were when the call began.
C1_NoMutationOnFailure ==
    \A r \in Reqs :
        (pc[r] = "failed" /\ result[r].at \in ValidationSteps)
            => Untouched(r)

\* A capacity failure in a registry where an earlier call has already
\* admitted an instance.
C1_Witness ==
    /\ pc[1] = "failed"
    /\ result[1].at = "has_enough_resource"
    /\ \E i \in InstanceIds : pre[1].state[i] = <<PAUSED, "migrating">>

\* The first rule of the chain that the call (id, d) violates when the
\* instances' states are those of before and the destination's liveness is
\* read at time t; "none" when it violates none.
FirstViolated(id, d, before, t) ==
    CASE id \notin DOMAIN instances -> "get_instance"
      [] id \in DOMAIN instances /\ before.state[id] # <<RUNNING, "running">>
            -> "check_state"
      [] OTHER ->
         IF d \notin DOMAIN hosts THEN "get_dest"
         ELSE IF d = instances[id].host THEN "check_same"
         ELSE IF ~\E k \in DOMAIN services :
                    services[k].topic = "compute" /\ services[k].host = d
              THEN "check_compute"
         ELSE IF \E k \in DOMAIN services :
                    /\ services[k].topic = "compute" /\ services[k].host = d
                    /\ ~service_is_up(services[k], t)
              THEN "check_alive"
         ELSE IF \/ instances[id].launched_on \notin DOMAIN hosts
                 \/ hosts[instances[id].launched_on].hypervisor_type
                       # hosts[d].hypervisor_type
              THEN "check_type"
         ELSE IF hosts[d].hypervisor_version
                    < hosts[instances[id].launched_on].hypervisor_version
              THEN "check_version"
         ELSE IF hosts[instances[id].launched_on].cpu_info.type # "str"
              THEN "check_cpuinfo"
         ELSE "none"

\* The exception each rule raises.
RuleError(rule, id) ==
    CASE rule \in {"get_instance", "get_dest"} -> "NotFound"
      [] rule = "check_type" ->
            IF instances[id].launched_on \notin DOMAIN hosts
            THEN "NotFound" ELSE "Invalid"
      [] OTHER -> "Invalid"

Attached(id) == {v \in DOMAIN volumes : volumes[v].instance_id = id}

\* Volumes of instance_id[r] that were in the volumes table when r began.
AttachedBefore(r) ==
    {v \in DOMAIN pre[r].status : VolumeOwner(v) = instance_id[r]}

RECURSIVE Claimed(_, _)
Claimed(S, dim) ==
    IF S = {} THEN 0
    ELSE LET i == CHOOSE i \in S : TRUE
         IN  instances[i][dim] + Claimed(S \ {i}, dim)

\* Declared total of host d minus what the instances placed on d claim.
Free(d, dim) ==
    hosts[d][dim] - Claimed({i \in DOMAIN instances : instances[i].host = d}, dim)

StrictlyFits(id, d) == \A dim \in Dimensions : Free(d, dim) > instances[id][dim]

\* C3: when every check passes and all attached volumes exist, the call ends
\* with the instance (PAUSED, 'migrating'), every volume attached to it
\* 'migrating', and returns the instance's host, which differs from dest.
\* A call whose checks all pass does not fail.
C3_SuccessfulMigration ==
    \A r \in Reqs :
        /\ (pc[r] = "done" /\ AttachedBefore(r) = Attached(instance_id[r]))
              => /\ StatePair(instance_id[r]) = <<PAUSED, "migrating">>
                 /\ \A v \in Attached(instance_id[r]) :
                       volumes[v].status = "migrating"
                 /\ result[r] = Return(instances[instance_id[r]].host)
                 /\ result[r].msg # dest[r]
        /\ pc[r] = "failed"
              => \/ result[r].at \in PreconditionSteps
                 \/ result[r].at = "compare_cpu" /\ rpc_ret[r] \in RpcErrors
                 \/ /\ result[r].at = "has_enough_resource"
                    /\ ~StrictlyFits(instance_id[r], dest[r])

\* A successful migration of an instance with two volumes.
C3_Witness ==
    /\ pc[1] = "done"
    /\ Cardinality(Attached(instance_id[1])) = 2
    /\ AttachedBefore(1) = Attached(instance_id[1])
    /\ result[1].msg = "h1"

\* C4: a call for an instance whose combined state, when the call reads it,
\* is not exactly (RUNNING, 'running') fails with the not-running error and
\* mutates nothing; so does a call made after the instance was admitted.
C4_OnlyRunningInstances ==
    \A r \in Reqs :
        (/\ pc[r] \notin {"idle", "get_instance", "check_state"}
         /\ instance_id[r] \in DOMAIN instances
         /\ pre[r].state[instance_id[r]] # <<RUNNING, "running">>)
            => /\ pc[r] = "failed"
               /\ result[r] = Raise("Invalid", "Instance(%s) is not running",
                                    "check_state")
               /\ Untouched(r)

\* A call rejected because an earlier call admitted the same instance.
C4_Witness ==
    /\ pc[1] = "failed"
    /\ result[1].at = "check_state"
    /\ pre[1].state[instance_id[1]] = <<PAUSED, "migrating">>

\* C5: has_enough_resource succeeds exactly when the destination's declared
\* total minus the sum over the instances placed on it strictly exceeds the
\* instance's demand in vcpus, memory_mb and local_gb; otherwise it raises
\* the insufficient-resources error and the instance's state is unchanged.
C5_StrictCapacity ==
    \A r \in Reqs :
        /\ pc[r] \in PastCapacity => StrictlyFits(instance_id[r], dest[r])
        /\ (pc[r] = "failed" /\ result[r].at = "has_enough_resource")
              => /\ ~StrictlyFits(instance_id[r], dest[r])
                 /\ result[r].exc = "NotEmpty"
                 /\ StatePair(instance_id[r]) = pre[r].state[instance_id[r]]

\* The destination's remaining memory equals the demand exactly, the other
\* two dimensions have room.
C5_Witness ==
    /\ pc[1] = "failed"
    /\ result[1].at = "has_enough_resource"
    /\ Free(dest[1], "memory_mb") = instances[instance_id[1]].memory_mb
    /\ Free(dest[1], "vcpus") > instances[instance_id[1]].vcpus
    /\ Free(dest[1], "local_gb") > instances[instance_id[1]].local_gb

\* C6: a not-found for one attached volume during the commit is swallowed
\* and the loop goes on with the rest: the call succeeds and every attached
\* volume that exists ends with status 'migrating'.
C6_NotFoundSkipsOneVolume ==
    \A r \in Reqs :
        pc[r] = "done"
            => \A v \in Attached(instance_id[r]) : volumes[v].status = "migrating"

\* C7: when the remote compare_cpu call fails, with a transport error or an
\* error of the remote side, the call ends with the remote error, before any
\* mutation of an instance's state or a volume's status.
C7_RemoteFailureReported ==
    \A r \in Reqs :
        (pc[r] = "failed" /\ rpc_ret[r] \in RpcErrors)
            => /\ result[r].exc = "RemoteError"
               /\ Untouched(r)

\* C8: the answer of compare_cpu is interpreted: a call whose remote call
\* returned normally with the answer 'incompatible' never sets the instance
\* to (PAUSED, 'migrating').
C8_IncompatibleAnswerRejected ==
    \A r \in Reqs : rpc_ret[r] = "incompatible" => pc[r] \notin Committed

\* The hypervisor_type and hypervisor_version of the destination and of the
\* origin host (launched_on) of request r.
OType(r) == hosts[instances[instance_id[r]].launched_on].hypervisor_type
DType(r) == hosts[dest[r]].hypervisor_type
OVersion(r) == hosts[instances[instance_id[r]].launched_on].hypervisor_version
DVersion(r) == hosts[dest[r]].hypervisor_version

PastHypervisor == {"check_cpuinfo", "compare_cpu", "has_enough_resource",
                   "set_state", "get_volumes", "update_volume", "return", "done"}
AfterHypervisor == {"check_cpuinfo", "compare_cpu", "has_enough_resource",
                    "set_state", "update_volume"}

\* C11: the hypervisor check compares the destination with the instance's
\* origin host (launched_on).  A call gets past it only when the two
\* hypervisor_type values are equal and the destination's hypervisor_version
\* is greater than or equal to the origin's; it fails with the Invalid error
\* "Different hypervisor type" exactly on a type mismatch and with the Invalid
\* error "Older hypervisor version" exactly on equal types and a destination
\* version lower than the origin's.
C11_HypervisorCompatibility ==
    \A r \in Reqs :
        /\ (pc[r] \in PastHypervisor
               \/ (pc[r] = "failed" /\ result[r].at \in AfterHypervisor))
              => /\ OType(r) = DType(r)
                 /\ DVersion(r) >= OVersion(r)
        /\ (pc[r] = "failed" /\ result[r].at = "check_type"
                            /\ result[r].exc = "Invalid")
              => /\ OType(r) # DType(r)
                 /\ result[r].msg = "Different hypervisor type(%s->%s)"
        /\ (pc[r] = "failed" /\ result[r].at = "check_version")
              => /\ OType(r) = DType(r)
                 /\ DVersion(r) < OVersion(r)
                 /\ result[r] = Raise("Invalid", "Older hypervisor version(%s->%s)",
                                      "check_version")

\* A destination whose hypervisor has the origin's type and version exactly
\* is accepted, for an instance whose origin is not the host it runs on.
C11_Witness ==
    /\ pc[1] = "check_cpuinfo"
    /\ OType(1) = DType(1)
    /\ DVersion(1) = OVersion(1)
    /\ instances[instance_id[1]].launched_on # instances[instance_id[1]].host
    /\ DVersion(1) < hosts[instances[instance_id[1]].host].hypervisor_version

Max(a, b) == IF a >= b THEN a ELSE b

\* The service_is_up call liveness records was made.
IsUpCalled == liveness.service.host # ""

HostsUpCalled == up_hosts.topic # ""

\* Rows of the services table on the topic that are up at time t.
UpRows(topic, t) ==
    {k \in DOMAIN services :
        services[k].topic = topic /\ service_is_up(services[k], t)}

\* C10: hosts_up(topic) returns exactly the hosts of the services of that
\* topic that service_is_up holds for at the time of the call, one entry per
\* such service, in registry order.
C10_HostsUpExact ==
    HostsUpCalled =>
        LET rows == UpRows(up_hosts.topic, up_hosts.at)
            nth(j) == CHOOSE k \in rows :
                         Cardinality({i \in rows : i < k}) = j - 1
        IN  /\ Len(up_hosts.hosts) = Cardinality(rows)
            /\ \A j \in 1..Len(up_hosts.hosts) :
                  up_hosts.hosts[j] = services[nth(j)].host

\* A compute query that returns one host, leaving out a compute service
\* that is down and a network service that is up.
C10_Witness ==
    /\ HostsUpCalled
    /\ up_hosts.topic = "compute"
    /\ Len(up_hosts.hosts) = 1
    /\ \E k \in DOMAIN services :
          services[k].topic = "compute" /\ ~service_is_up(services[k], up_hosts.at)
    /\ \E k \in DOMAIN services :
          services[k].topic = "network" /\ service_is_up(services[k], up_hosts.at)

\* C12: two calls for distinct instances and the same destination run
\* concurrently and nothing is reserved between a call's capacity check and
\* its return: the answer of each call's check is the one the placements of
\* the registry give for its own instance, whatever the other call has
\* reached, so both are admitted also where the destination's remaining
\* capacity does not strictly exceed the two demands together.
C12_ChecksIndependent ==
    \A r1, r2 \in Reqs :
        (/\ r1 # r2
         /\ dest[r1] = dest[r2]
         /\ instance_id[r1] # instance_id[r2]
         /\ pc[r2] \in PastCapacity)
            => /\ pc[r1] \in PastCapacity
                     => StrictlyFits(instance_id[r1], dest[r1])
               /\ (pc[r1] = "failed" /\ result[r1].at = "has_enough_resource")
                     => ~StrictlyFits(instance_id[r1], dest[r1])

\* Both calls have returned, each began before the other wrote the state of
\* its instance, and in some dimension what the destination has left does
\* not strictly exceed the sum of the two demands.
C12_Witness ==
    /\ pc[1] = "done" /\ pc[2] = "done"
    /\ instance_id[1] # instance_id[2]
    /\ dest[1] = dest[2]
    /\ pre[1].state[instance_id[2]] = <<RUNNING, "running">>
    /\ pre[2].state[instance_id[1]] = <<RUNNING, "running">>
    /\ StatePair(instance_id[1]) = <<PAUSED, "migrating">>
    /\ StatePair(instance_id[2]) = <<PAUSED, "migrating">>
    /\ \E dim \in Dimensions :
          Free(dest[1], dim) <= instances[instance_id[1]][dim]
                                  + instances[instance_id[2]][dim]

\* Ids of the volumes the commit loop of request r has still to visit.
Unvisited(r) == {vols[r][k] : k \in DOMAIN vols[r]}

\* C13: the commit is not rolled back.  When a volume update raises an error
\* other than not-found after the instance was set to (PAUSED, 'migrating'),
\* the call fails with that error, the instance stays (PAUSED, 'migrating'),
\* the volumes updated before the failure keep status 'migrating', the
\* volumes the loop had not reached keep the status they had, and nothing
\* else has changed.
C13_CommitNotRolledBack ==
    \A r \in Reqs :
        (pc[r] = "failed" /\ result[r].at = "update_volume")
            => /\ result[r].exc \in VolumeUpdateErrors
               /\ StatePair(instance_id[r]) = <<PAUSED, "migrating">>
               /\ \A v \in Attached(instance_id[r]) :
                     IF v \in Unvisited(r)
                     THEN volumes[v].status = pre[r].status[v]
                     ELSE volumes[v].status = "migrating"
               /\ \A i \in DOMAIN instances \ {instance_id[r]} :
                     StatePair(i) = pre[r].state[i]
               /\ \A v \in DOMAIN volumes \ Attached(instance_id[r]) :
                     volumes[v].status = pre[r].status[v]

\* The update of the second volume fails after the first was updated, in
\* the call that paused the instance.
C13_Witness ==
    /\ pc[1] = "failed"
    /\ result[1].at = "update_volume"
    /\ pre[1].state[instance_id[1]] = <<RUNNING, "running">>
    /\ \E v, w \in Attached(instance_id[1]) :
          /\ v \notin Unvisited(1) /\ volumes[v].status = "migrating"
          /\ w \in Unvisited(1) /\ volumes[w].status = "in-use"

\* Request r is in a second run of the commit statements: its instance was
\* (PAUSED, 'migrating') when the run began and the run is past the checks.
InRecommit(r) ==
    /\ instance_id[r] \in DOMAIN instances
    /\ pre[r].state[instance_id[r]] = <<PAUSED, "migrating">>
    /\ \/ pc[r] \in PastCapacity
       \/ pc[r] = "failed" /\ result[r].at \notin ValidationSteps

C15_ScheduleNotImplemented ==
    [][scheduled' # scheduled
          => /\ scheduled'.result.exc = "NotImplementedError"
             /\ scheduled'.result.at = "schedule"
             /\ registry' = registry]_vars

\* schedule was called for a topic that has a host up and with arguments.
C15_Witness ==
    /\ scheduled.topic = "compute"
    /\ scheduled.args # <<>>
    /\ scheduled.result.exc = "NotImplementedError"
    /\ hosts_up("compute", now) # <<>>

\* The fields of the registry the driver never writes.
Fixed ==
    [services  |-> services,
     hosts     |-> hosts,
     instances |-> [i \in DOMAIN instances |->
                      [host        |-> instances[i].host,
                       launched_on |-> instances[i].launched_on,
                       vcpus       |-> instances[i].vcpus,
                       memory_mb   |-> instances[i].memory_mb,
                       local_gb    |-> instances[i].local_gb]],
     volumes   |-> [v \in DOMAIN volumes |-> volumes[v].instance_id]]

\* What a call that returned has left: its instance still placed on the host
\* it returned, and only that instance's state and the statuses of the
\* volumes attached to it other than when the call began.
ReturnedFrame(r) ==
    pc[r] = "done"
        => /\ instances[instance_id[r]].host = result[r].msg
           /\ \A i \in DOMAIN instances \ {instance_id[r]} :
                 StatePair(i) = pre[r].state[i]
           /\ \A v \in DOMAIN volumes \ Attached(instance_id[r]) :
                 volumes[v].status = pre[r].status[v]

\* C16: the driver writes nothing but an instance's state and
\* state_description and a volume's status, and these only in the commit that
\* follows a call's last check: no step of hosts_up, has_enough_resource or
\* schedule_live_migration changes a service record, a host record, or an
\* instance's host, launched_on, vcpus, memory_mb or local_gb; after a call
\* returned, the instance's host is still the source host returned and only
\* the migrated instance and its attached volumes differ from before the call.
C16_OnlyStateAndStatusWritten ==
    [][/\ Fixed' = Fixed
       /\ Mutable' # Mutable
             => \E r \in Reqs : /\ pc[r] \in {"set_state", "update_volume"}
                                /\ pc'[r] # "failed"
                                /\ pre[r].state[instance_id[r]]
                                      = <<RUNNING, "running">>
       /\ \A r \in Reqs : ReturnedFrame(r)']_vars

\* A call has returned with its instance paused and a volume marked, after
\* a hosts_up query; the instance's host is not the destination.
C16_Witness ==
    /\ pc[1] = "done"
    /\ HostsUpCalled
    /\ StatePair(instance_id[1]) = <<PAUSED, "migrating">>
    /\ \E v \in Attached(instance_id[1]) : volumes[v].status = "migrating"
    /\ instances[instance_id[1]].host = result[1].msg
    /\ instances[instance_id[1]].host # dest[1]

\* The heartbeat of the service of row k is service_down_time old or older.
Stale(k) == now - last_heartbeat(services[k]) >= service_down_time

Listed(host, list) == \E j \in DOMAIN list : list[j] = host

\* C17: liveness is evaluated anew by every query.  While the heartbeat of a
\* service is service_down_time old or more (it has not been refreshed since
\* it reached that age), every hosts_up call for its topic returns a list
\* without its host and every schedule_live_migration to that host that
\* reaches the liveness check fails with the not-alive error, whatever
\* earlier queries returned.
C17_LivenessRecomputed ==
    [][\A k \in DOMAIN services :
          Stale(k)
             => /\ CallHostsUp(services[k].topic)
                      => ~Listed(services[k].host, up_hosts'.hosts)
                /\ \A r \in Reqs :
                      (/\ services[k].topic = "compute"
                       /\ dest[r] = services[k].host
                       /\ pc[r] = "check_alive"
                       /\ pc'[r] # "check_alive")
                         => /\ pc'[r] = "failed"
                            /\ result'[r] =
                                  Raise("Invalid",
                                        "%s is not alive(time synchronize problem?)",
                                        "check_alive")]_vars

\* An earlier hosts_up listed h2; its service has not reported since, its
\* heartbeat has reached service_down_time, and a migration to h2 has failed
\* at the liveness check.
C17_Witness ==
    /\ up_hosts.topic = "compute"
    /\ up_hosts.at < now
    /\ Listed("h2", up_hosts.hosts)
    /\ pc[1] = "failed"
    /\ result[1].at = "check_alive"
    /\ dest[1] = "h2"
    /\ \E k \in DOMAIN services : services[k].host = "h2" /\ Stale(k)

\* The state pair request r read at line 75.
ReadPair(r) == <<instance_ref[r].state, instance_ref[r].state_description>>

PastStateCheck == PastPreconditions \cup (PreconditionSteps \ {"get_instance", "check_state"})

\* C18: of two calls for the same instance at most one is admitted, under
\* every interleaving.
C18_AtMostOneAdmitted ==
    \A r1, r2 \in Reqs :
        (r1 # r2 /\ instance_id[r1] = instance_id[r2])
            => ~(pc[r1] = "done" /\ pc[r2] = "done")

\* C18, amended: a call goes past its state check, and so writes
\* (PAUSED, 'migrating'), only when the state it read itself at line 75 was
\* (RUNNING, 'running'); a call that read the instance after another call's
\* write is rejected as not running.  The state is not read again before the
\* write, so two calls for one instance are both admitted only when each read
\* it before the other wrote.
C18_WriteFollowsOwnRead ==
    \A r \in Reqs :
        /\ (pc[r] \in PastStateCheck
               \/ (pc[r] = "failed" /\ result[r].at \notin {"get_instance",
                                                            "check_state"}))
              => ReadPair(r) = <<RUNNING, "running">>
        /\ (pc[r] \notin {"idle", "get_instance", "check_state"}
               /\ ReadPair(r) = <<PAUSED, "migrating">>)
              => /\ pc[r] = "failed"
                 /\ result[r] = Raise("Invalid", "Instance(%s) is not running",
                                      "check_state")
        /\ \A r2 \in Reqs :
              (/\ r # r2 /\ instance_id[r] = instance_id[r2]
               /\ pc[r] = "done" /\ pc[r2] = "done")
                 => /\ pre[r].state[instance_id[r]] = <<RUNNING, "running">>
                    /\ pre[r2].state[instance_id[r]] = <<RUNNING, "running">>

\* Two calls for one instance: the first has returned, the second read the
\* instance after the first's write and was rejected.
C18_Witness ==
    /\ instance_id[1] = instance_id[2]
    /\ pc[1] = "done"
    /\ pc[2] = "failed"
    /\ result[2].at = "check_state"
    /\ ReadPair(2) = <<PAUSED, "migrating">>
    /\ pre[1].state[instance_id[1]] = <<RUNNING, "running">>

\* Instances that calls which returned were asked to migrate to host d.
AdmittedTo(d) == {i \in DOMAIN instances : <<i, d>> \in admitted}

\* C19: calls that follow one another never over-commit a destination: the
\* demands of all instances admitted to a host plus what the instances
\* placed on it claim stay strictly below its declared totals, in vcpus,
\* memory_mb and local_gb.
C19_NoOverCommit ==
    \A d \in DOMAIN hosts, dim \in Dimensions :
        AdmittedTo(d) # {} => Claimed(AdmittedTo(d), dim) < Free(d, dim)

\* C19, amended: each admission alone respects the capacity: the demand of
\* an instance admitted to a host plus what the instances placed on that host
\* claim is strictly below the host's declared totals in every dimension.
\* An admitted instance stays placed on its source host, so it does not count
\* against the destination in later checks and the admitted demands together
\* are not bounded by the totals.
C19_EachAdmissionFits ==
    \A d \in DOMAIN hosts :
        \A i \in AdmittedTo(d) :
            /\ StrictlyFits(i, d)
            /\ instances[i].host # d
            /\ StatePair(i) = <<PAUSED, "migrating">>

\* Two calls, one after the other, admitted instances 1 and 5 to the same
\* host, which has room for either and not strictly for both.
C19_Witness ==
    \E d \in DOMAIN hosts :
        /\ Cardinality(AdmittedTo(d)) = 2
        /\ pc[1] = "done"
        /\ \A i \in AdmittedTo(d) : StrictlyFits(i, d)
        /\ \E dim \in Dimensions : Claimed(AdmittedTo(d), dim) >= Free(d, dim)

\* C20: within a call the instance-state write comes before every
\* volume-status write, so a volume the driver has marked 'migrating' belongs
\* to an instance that is (PAUSED, 'migrating'); no volume is 'migrating'
\* while its instance is still (RUNNING, 'running').  (Volumes start
\* 'in-use' and nothing but the driver writes.)
C20_StateBeforeVolumes ==
    \A v \in DOMAIN volumes :
        volumes[v].status = "migrating"
            => StatePair(volumes[v].instance_id) = <<PAUSED, "migrating">>

\* In the middle of a commit loop: one volume of the instance is marked, the
\* next is not yet, while another call is under way.
C20_Witness ==
    /\ pc[1] = "update_volume"
    /\ pc[2] \notin {"idle", "done", "failed"}
    /\ \E v, w \in Attached(instance_id[1]) :
          /\ volumes[v].status = "migrating"
          /\ volumes[w].status = "in-use"
          /\ w \in Unvisited(1)
    /\ StatePair(instance_id[1]) = <<PAUSED, "migrating">>

====
